---- MODULE Spec2Model ----
\* A model of the news pipeline of APNews-Crawler: headline clients, crawler,
\* two-stage analyzer, Firestore client, news services and the processor loop.
\* Text values are sequences of Unicode code points; byte strings are sequences
\* of numbers 0..255.
EXTENDS Integers, Sequences, FiniteSets, TLC

VARIABLES
    url1, url2,     \* url_to_document_id: the two URLs given
    id1, id2,       \* url_to_document_id: the identifiers returned
    idpc,           \* url_to_document_id: "input" before the calls, "derived" after
    hlClient,       \* get_headlines: "NewsAPI" or "NewsIO"
    hlTotal,        \* get_headlines: the argument total
    hlResp,         \* get_headlines: what the upstream index answers
    hlOut,          \* get_headlines: [raised, value] once it has ended
    hlpc,           \* get_headlines: "call" before, "ended" after
    pc,             \* run / get_full_articles: "Start", "Loop", "Done" or "Raised"
    runNo,          \* run: the number of this run of the program
    articles,       \* run / get_full_articles: the list get_headlines returned
    idx,            \* run / get_full_articles: position of the loop in articles
    calls,          \* run / get_full_articles: the collaborator calls made so far
    access_token,   \* FirestoreClient._access_token
    store,          \* the document store: address -> fields
    service,        \* get_full_articles: the service, its client and its crawler
    full_articles,  \* get_full_articles: the list built, returned at "Done"
    anArticle,      \* analyze_article: the FullArticle given
    anR1, anR2,     \* analyze_article: the answers to the two remote calls
    anOut,          \* analyze_article: [raised, value, requests] once it has ended
    anpc,           \* analyze_article: "call" before, "ended" after
    crCrawler,      \* crawl_article: "AP" or "TuoiTre"
    crNews,         \* crawl_article: the PartialArticle given
    crPage,         \* crawl_article: what the page fetch answers
    crOut,          \* crawl_article: [raised, value] once it has ended
    crpc,           \* crawl_article: "call" before, "ended" after
    fcmTokens,      \* send_to_tokens: the argument tokens
    fcmIdx,         \* send_to_tokens: position of the loop in tokens
    fcmSent,        \* send_to_tokens: the requests posted so far, [token, outcome]
    fcmResponses,   \* send_to_tokens: the list responses
    fcmToken,       \* FCMClient._access_token
    fcmpc,          \* send_to_tokens: "Start", "Loop", "Done" or "Raised"
    wrValue,        \* _wrap_value: the value given
    wrOut,          \* _wrap_value: the tagged value returned, or TypeError
    wrpc            \* _wrap_value: "call" before, "ended" after

idVars == <<url1, url2, id1, id2, idpc>>
hlVars == <<hlClient, hlTotal, hlResp, hlOut, hlpc>>
runVars == <<pc, runNo, articles, idx, calls, access_token, store>>
svcVars == <<service, full_articles>>
anVars == <<anArticle, anR1, anR2, anOut, anpc>>
crVars == <<crCrawler, crNews, crPage, crOut, crpc>>
fcmVars == <<fcmTokens, fcmIdx, fcmSent, fcmResponses, fcmToken, fcmpc>>
wrVars == <<wrValue, wrOut, wrpc>>

vars == <<idVars, hlVars, runVars, svcVars, anVars, crVars, fcmVars, wrVars>>

\* ------------------------------------------------------------------ bounds

\* Longest URL (in code points) given to url_to_document_id.
MaxUrlLen == 2

\* Most article records the upstream index puts in one response.
MaxRecords == 3

\* Largest value of the argument total.
MaxTotal == 2

\* Most articles processed in all the runs of the program together.
MaxArticles == 3

\* Most runs of the program against the same store.
MaxRuns == 2

\* Most insert_document calls made on one Firestore client.
MaxInserts == 3

\* Longest list of scalars inside a document value.
MaxListLen == 2

\* Most device tokens given to send_to_tokens.
MaxTokens == 3

\* Most send_to_topic calls made on one client.
MaxSends == 3

\* ------------------------------------------------------------------ text

\* Python values are pairs <<type, payload>>: a str carries its text, a dict a
\* function from its keys (strings) to values, a list a sequence of values.
PyStr(t) == <<"str", t>>
PyNone == <<"none", <<>>>>
PyBool(b) == <<"bool", b>>
PyInt(n) == <<"int", n>>
PyFloat(x) == <<"float", x>>
PyList(vs) == <<"list", vs>>
PyDict(f) == <<"dict", f>>

IsStr(v) == v[1] = "str"

\* bool(value) of a str or None
Truthy(v) == IsStr(v) /\ v[2] # <<>>

\* d.get(key): None when the key is missing
Get(d, key) == IF key \in DOMAIN d THEN d[key] ELSE PyNone

\* d.get(key, default)
GetOr(d, key, default) == IF key \in DOMAIN d THEN d[key] ELSE default

\* ' ' and '\n'
Whitespace == {32, 10}

\* str.strip()
RECURSIVE strip(_)
strip(s) ==
    IF s = <<>> THEN s
    ELSE IF Head(s) \in Whitespace THEN strip(Tail(s))
    ELSE IF s[Len(s)] \in Whitespace THEN strip(SubSeq(s, 1, Len(s) - 1))
    ELSE s

RECURSIVE SeqsUpTo(_, _)
SeqsUpTo(S, n) ==
    IF n = 0 THEN {<<>>}
    ELSE LET shorter == SeqsUpTo(S, n - 1)
         IN  shorter \cup {Append(t, x) : t \in {q \in shorter : Len(q) = n - 1}, x \in S}

\* '?', '&', '%', 'a', U+00E9 (2 bytes), U+20AC (3 bytes), U+1F600 (4 bytes)
CodePoints == {63, 38, 37, 97, 233, 8364, 128512}

Urls == SeqsUpTo(CodePoints, MaxUrlLen)

\* str.encode("utf-8") of one code point
Utf8Char(cp) ==
    IF cp < 128 THEN <<cp>>
    ELSE IF cp < 2048 THEN <<192 + (cp \div 64), 128 + (cp % 64)>>
    ELSE IF cp < 65536 THEN
        <<224 + (cp \div 4096), 128 + ((cp \div 64) % 64), 128 + (cp % 64)>>
    ELSE
        <<240 + (cp \div 262144), 128 + ((cp \div 4096) % 64),
          128 + ((cp \div 64) % 64), 128 + (cp % 64)>>

\* url.encode("utf-8")
RECURSIVE Utf8Encode(_)
Utf8Encode(s) ==
    IF s = <<>> THEN <<>> ELSE Utf8Char(Head(s)) \o Utf8Encode(Tail(s))

\* A plausible slip: base64.b64encode in place of urlsafe_b64encode, whose
\* alphabet has '+' and '/' where the URL-safe one has '-' and '_'.
StandardChar(sextet) ==
    IF sextet < 26 THEN 65 + sextet
    ELSE IF sextet < 52 THEN 97 + (sextet - 26)
    ELSE IF sextet < 62 THEN 48 + (sextet - 52)
    ELSE IF sextet = 62 THEN 43
    ELSE 47

\* The URL-safe base64 alphabet as ASCII codes: A-Z a-z 0-9 - _
UrlSafeChar(sextet) ==
    IF sextet < 26 THEN 65 + sextet
    ELSE IF sextet < 52 THEN 97 + (sextet - 26)
    ELSE IF sextet < 62 THEN 48 + (sextet - 52)
    ELSE IF sextet = 62 THEN 45
    ELSE 95

\* '='
PadChar == 61

\* base64.urlsafe_b64encode: 3 bytes -> 4 characters, the last group padded with '='
RECURSIVE urlsafe_b64encode(_)
urlsafe_b64encode(bs) ==
    IF Len(bs) = 0 THEN <<>>
    ELSE IF Len(bs) = 1 THEN
        <<UrlSafeChar(bs[1] \div 4), UrlSafeChar((bs[1] % 4) * 16), PadChar, PadChar>>
    ELSE IF Len(bs) = 2 THEN
        <<UrlSafeChar(bs[1] \div 4),
          UrlSafeChar((bs[1] % 4) * 16 + (bs[2] \div 16)),
          UrlSafeChar((bs[2] % 16) * 4), PadChar>>
    ELSE
        <<UrlSafeChar(bs[1] \div 4),
          UrlSafeChar((bs[1] % 4) * 16 + (bs[2] \div 16)),
          UrlSafeChar((bs[2] % 16) * 4 + (bs[3] \div 64)),
          UrlSafeChar(bs[3] % 64)>>
        \o urlsafe_b64encode(SubSeq(bs, 4, Len(bs)))

\* str.rstrip("="): drop every trailing '='
RECURSIVE rstrip_pad(_)
rstrip_pad(s) ==
    IF s # <<>> /\ s[Len(s)] = PadChar THEN rstrip_pad(SubSeq(s, 1, Len(s) - 1)) ELSE s

\* A plausible slip: the identifier keeps only the complete 4-character groups.
url_to_document_id_truncating(url) ==
    LET e == urlsafe_b64encode(Utf8Encode(url))
    IN  IF e # <<>> /\ e[Len(e)] = PadChar THEN SubSeq(e, 1, Len(e) - 4) ELSE e

\* url_to_document_id(url): URL-safe base64 of the UTF-8 bytes, padding stripped.
\* (The ASCII bytes of the encoding decode to the same code points.)
url_to_document_id(url) ==
    rstrip_pad(urlsafe_b64encode(Utf8Encode(url)))

\* -------------------------------------------------------- headline clients

\* "t1", "t2", "t3", "t4": titles; "au": an author; "img": an image address
T1 == <<116, 49>>
T2 == <<116, 50>>
T3 == <<116, 51>>
T4 == <<116, 52>>
Author == <<97, 117>>
Image == <<105, 109, 103>>
\* "Unknown"
Unknown == <<85, 110, 107, 110, 111, 119, 110>>

\* "a?", "b"
UrlA == <<97, 63>>
UrlB == <<98>>

\* The union of two dicts (f wins).
With(f, g) == [x \in DOMAIN f \cup DOMAIN g |-> IF x \in DOMAIN f THEN f[x] ELSE g[x]]

\* One article record of the upstream response, as the JSON object it is.
\* author is NewsAPI's `author` or NewsData.io's `creator` (a plain string
\* here), url is `url` or `link`, image is `urlToImage` or `image_url`.
ApiRecord(au, ti, u, im) == [author |-> au, title |-> ti, url |-> u, image |-> im]

HeadlineRecords ==
    { ApiRecord(PyStr(Author), PyStr(T1), PyStr(UrlA), PyStr(Image)),
      [author |-> PyNone, title |-> PyStr(T2), url |-> PyStr(UrlB)],
      [title |-> PyStr(<<32>>), url |-> PyStr(UrlB), image |-> PyNone],
      [author |-> PyStr(Author), url |-> PyStr(UrlA), image |-> PyStr(Image)],
      ApiRecord(PyStr(Author), PyStr(T3), PyStr(<<>>), PyStr(Image)) }

RecordLists == SeqsUpTo(HeadlineRecords, MaxRecords)

\* requests.get raised (connection error, timeout): no response at all.
NetError ==
    [net |-> FALSE, status |-> 0, json |-> FALSE, apiStatus |-> "none",
     totalResults |-> 0, hasList |-> FALSE, records |-> <<>>]

\* A response whose body is not JSON.
Malformed(st) ==
    [net |-> TRUE, status |-> st, json |-> FALSE, apiStatus |-> "none",
     totalResults |-> 0, hasList |-> FALSE, records |-> <<>>]

\* A response whose body is a JSON object: apiStatus is its `status`, hasList says
\* whether it has the `articles` / `results` key, records is that list.
JsonBody(st, api, n, has, recs) ==
    [net |-> TRUE, status |-> st, json |-> TRUE, apiStatus |-> api,
     totalResults |-> n, hasList |-> has, records |-> recs]

Statuses == {200, 304, 404, 500}

Responses ==
    {NetError}
    \cup {Malformed(st) : st \in Statuses}
    \cup {JsonBody(st, api, n, TRUE, recs) :
            st \in Statuses, api \in {"success", "error"},
            n \in {0, MaxRecords}, recs \in RecordLists}
    \cup {JsonBody(st, "success", MaxRecords, FALSE, <<>>) : st \in Statuses}

\* Response.raise_for_status(): raises HTTPError for 4xx and 5xx only.
raise_for_status(status) == status >= 400 /\ status < 600

Returned(v) == [raised |-> FALSE, value |-> v]
Raised == [raised |-> TRUE, value |-> <<>>]

\* PartialArticle(author=..., title=..., url=..., imageUrl=...)
PartialArticle(au, ti, u, im) == [author |-> au, title |-> ti, url |-> u, imageUrl |-> im]

\* A plausible slip: no try/except around requests.get, so that a transport
\* failure leaves get_headlines as an exception.
NewsAPI_get_headlines_unswallowed(resp, total) ==
    IF ~resp.net THEN Raised
    ELSE IF raise_for_status(resp.status) THEN Returned(<<>>)
    ELSE IF ~resp.json THEN Raised
    ELSE LET items == IF resp.hasList THEN resp.records ELSE <<>>
         IN  Returned([i \in 1..Len(items) |->
                PartialArticle(Get(items[i], "author"), Get(items[i], "title"),
                               Get(items[i], "url"), Get(items[i], "image"))])

\* NewsAPIClient.get_headlines. total goes into the request (pageSize) only.
NewsAPI_get_headlines(resp, total) ==
    IF ~resp.net \/ raise_for_status(resp.status) THEN Returned(<<>>)
    ELSE IF ~resp.json THEN Raised
    ELSE LET items == IF resp.hasList THEN resp.records ELSE <<>>
         IN  Returned([i \in 1..Len(items) |->
                PartialArticle(Get(items[i], "author"), Get(items[i], "title"),
                               Get(items[i], "url"), Get(items[i], "image"))])

\* NewsIOAPIClient._parse_author (creator as a plain string, no source_id)
parse_author(article) ==
    IF Truthy(Get(article, "author")) THEN article["author"] ELSE PyStr(Unknown)

\* The filter of the list comprehension: records with a title and a link.
RECURSIVE NewsIO_keep(_)
NewsIO_keep(items) ==
    IF items = <<>> THEN <<>>
    ELSE IF Truthy(Get(Head(items), "title")) /\ Truthy(Get(Head(items), "url"))
         THEN <<Head(items)>> \o NewsIO_keep(Tail(items))
         ELSE NewsIO_keep(Tail(items))

\* NewsIOAPIClient.get_headlines. total goes into the request (size) only.
NewsIO_get_headlines(resp, total) ==
    IF ~resp.net \/ raise_for_status(resp.status) THEN Returned(<<>>)
    ELSE IF ~resp.json THEN Raised
    ELSE IF resp.apiStatus # "success" THEN Returned(<<>>)
    ELSE IF resp.totalResults = 0 THEN Returned(<<>>)
    ELSE LET items == IF resp.hasList THEN resp.records ELSE <<>>
             kept == NewsIO_keep(items)
         IN  Returned([i \in 1..Len(kept) |->
                PartialArticle(parse_author(kept[i]),
                               PyStr(strip(GetOr(kept[i], "title", PyStr(<<>>))[2])),
                               GetOr(kept[i], "url", PyStr(<<>>)),
                               GetOr(kept[i], "image", PyStr(<<>>)))])

get_headlines(client, resp, total) ==
    IF client = "NewsAPI" THEN NewsAPI_get_headlines(resp, total)
    ELSE NewsIO_get_headlines(resp, total)

\* ------------------------------------------------------------------ crawler

\* "body"
Body == <<98, 111, 100, 121>>

\* requests.get raised: no page at all.
NoPage == [net |-> FALSE, status |-> 0, regions |-> {}, text |-> <<>>]

\* A fetched page: the classes of the div regions it has, and the text of a region.
Page(st, regions, text) == [net |-> TRUE, status |-> st, regions |-> regions, text |-> text]

Pages ==
    { NoPage, Page(500, {}, <<>>), Page(200, {}, Body), Page(304, {}, <<>>),
      Page(200, {"RichTextBody"}, Body), Page(200, {"detail__main"}, Body),
      Page(200, {"RichTextBody", "detail__main"}, <<>>) }

\* The class of the content region each crawler looks for.
RegionClass(crawler) == IF crawler = "AP" THEN "RichTextBody" ELSE "detail__main"

\* A plausible slip: the stub is tidied on the way, a missing author becoming
\* "Unknown".
create_crawled_news_defaulting(news, content) ==
    [article |-> PartialArticle(IF news.author = PyNone THEN PyStr(Unknown) ELSE news.author,
                                news.title, news.url, news.imageUrl),
     content |-> content]

\* BaseNewsCrawler._create_crawled_news
create_crawled_news(news, content) ==
    [article |-> PartialArticle(news.author, news.title, news.url, news.imageUrl),
     content |-> content]

\* A plausible slip: get_text is called on the region without the test that
\* there is one, so that a page without the region makes the crawl raise.
crawl_article_unguarded(crawler, news, page) ==
    IF ~page.net \/ raise_for_status(page.status) \/ RegionClass(crawler) \notin page.regions
    THEN [raised |-> TRUE, value |-> create_crawled_news(news, <<>>)]
    ELSE [raised |-> FALSE, value |-> create_crawled_news(news, <<page.text>>)]

\* APNewsCrawler.crawl_article / TuoiTreNewsCrawler.crawl_article
crawl_article(crawler, news, page) ==
    IF ~page.net \/ raise_for_status(page.status)
    THEN [raised |-> TRUE, value |-> create_crawled_news(news, <<>>)]
    ELSE LET content == IF RegionClass(crawler) \in page.regions THEN page.text ELSE <<>>
         IN  [raised |-> FALSE, value |-> create_crawled_news(news, <<content>>)]

\* ----------------------------------------------------------------- analyzer

\* "sh", "cat", "dif", "w", "q", "x": the values of the stage responses
Short == <<115, 104>>
Cat == <<99, 97, 116>>
Dif == <<100, 105, 102>>
Words == <<119>>
Quiz == <<113>>
Other == <<120>>

\* A stage response: ok says that the remote call returned a function-call
\* payload that json.loads parsed into an object, data is that object.
StageFailed == [ok |-> FALSE, data |-> [error |-> PyStr(<<>>)]]
StageOk(d) == [ok |-> TRUE, data |-> d]

\* Without the key k.
Drop(d, k) == [x \in DOMAIN d \ {k} |-> d[x]]

Step1Complete ==
    [shortened |-> PyStr(Short), sentences |-> PyList(<<PyStr(Short)>>),
     category |-> PyStr(Cat), difficulty |-> PyStr(Dif)]

Step2Complete ==
    [easy_words |-> PyList(<<PyStr(Words)>>), medium_words |-> PyList(<<>>),
     hard_words |-> PyList(<<>>), quiz |-> PyList(<<PyStr(Quiz)>>)]

Step1Responses ==
    { StageFailed, StageOk(Step1Complete),
      StageOk(Drop(Step1Complete, "category")),
      StageOk(Drop(Step1Complete, "shortened")),
      StageOk(With([url |-> PyStr(UrlB), title |-> PyStr(Other)], Step1Complete)) }

Step2Responses ==
    { StageFailed, StageOk(Step2Complete),
      StageOk(Drop(Step2Complete, "quiz")),
      StageOk(With([shortened |-> PyStr(Other), author |-> PyStr(Other)], Step2Complete)) }

MetaKeys == {"url", "title", "author", "imageUrl"}

\* A plausible slip: the metadata first, so that a stage's key overrides it.
merge_stages_last(step1_data, step2_data, news) ==
    [k \in DOMAIN step1_data \cup DOMAIN step2_data \cup MetaKeys |->
        IF k \in DOMAIN step2_data THEN step2_data[k]
        ELSE IF k \in DOMAIN step1_data THEN step1_data[k]
        ELSE news[k]]

\* The dict literal {**step1_data, **step2_data, "url": ..., "title": ...,
\* "author": ..., "imageUrl": ...}: a later entry replaces an earlier one.
merge(step1_data, step2_data, news) ==
    [k \in DOMAIN step1_data \cup DOMAIN step2_data \cup MetaKeys |->
        IF k \in MetaKeys THEN news[k]
        ELSE IF k \in DOMAIN step2_data THEN step2_data[k]
        ELSE step1_data[k]]

\* One remote call made by the analyzer.
Request(stage, input) == [stage |-> stage, input |-> input]

AnalyzeRaised(reqs) == [raised |-> TRUE, value |-> [error |-> PyStr(<<>>)], requests |-> reqs]

\* A plausible slip: stage 2 is given the crawled text instead of the text
\* stage 1 shortened, and is asked whatever stage 1 answered.
analyze_article_from_content(article, r1, r2) ==
    LET req1 == Request(1, PyStr(article.content[1]))
        req2 == Request(2, PyStr(article.content[1]))
    IN  IF ~r1.ok \/ ~r2.ok THEN AnalyzeRaised(<<req1, req2>>)
        ELSE [raised |-> FALSE,
              value |-> merge(r1.data, r2.data, article.article),
              requests |-> <<req1, req2>>]

\* OpenAIArticleAnalyzer.analyze_article; r1 and r2 are the answers to the two
\* remote calls (_analyze_step1, _analyze_step2).
analyze_article(article, r1, r2) ==
    LET req1 == Request(1, PyStr(article.content[1]))
    IN  IF ~r1.ok THEN AnalyzeRaised(<<req1>>)
        ELSE IF "shortened" \notin DOMAIN r1.data THEN AnalyzeRaised(<<req1>>)
        ELSE LET req2 == Request(2, r1.data["shortened"])
             IN  IF ~r2.ok THEN AnalyzeRaised(<<req1, req2>>)
                 ELSE [raised |-> FALSE,
                       value |-> merge(r1.data, r2.data, article.article),
                       requests |-> <<req1, req2>>]

\* ---------------------------------------------------------- Firestore client

\* self._access_token before the exchange, and the token the exchange yields
NoToken == "None"
Token == "token"

\* A plausible slip: the cached token is not looked at, every call exchanges.
get_access_token_uncached(token, exchangeOk) ==
    IF exchangeOk THEN [raised |-> FALSE, token |-> Token, exchanged |-> TRUE]
    ELSE [raised |-> TRUE, token |-> NoToken, exchanged |-> TRUE]

\* FirestoreClient.get_access_token: the exchange happens only without a cached
\* token; exchangeOk says whether it succeeds.
get_access_token(token, exchangeOk) ==
    IF token # NoToken THEN [raised |-> FALSE, token |-> token, exchanged |-> FALSE]
    ELSE IF exchangeOk THEN [raised |-> FALSE, token |-> Token, exchanged |-> TRUE]
    ELSE [raised |-> TRUE, token |-> NoToken, exchanged |-> TRUE]

\* isinstance(value, T): a bool is an int as well
IsInstance(v, T) == v[1] = T \/ (T = "int" /\ v[1] = "bool")

\* str(n) of an integer, as code points
RECURSIVE DigitsOf(_)
DigitsOf(n) == IF n < 10 THEN <<48 + n>> ELSE Append(DigitsOf(n \div 10), 48 + (n % 10))
IntToStr(n) == IF n < 0 THEN <<45>> \o DigitsOf(0 - n) ELSE DigitsOf(n)

TypeError == <<"TypeError", <<>>>>

\* A plausible slip: a value of an unsupported type is stored as the text of
\* its str() instead of being refused.
RECURSIVE wrap_value_lenient(_)
wrap_value_lenient(value) ==
    IF IsInstance(value, "list") THEN
        <<"arrayValue", [i \in 1..Len(value[2]) |-> wrap_value_lenient(value[2][i])]>>
    ELSE IF IsInstance(value, "dict") THEN
        <<"mapValue", [k \in DOMAIN value[2] |-> wrap_value_lenient(value[2][k])]>>
    ELSE IF IsInstance(value, "str") THEN <<"stringValue", value[2]>>
    ELSE IF IsInstance(value, "bool") THEN <<"booleanValue", value[2]>>
    ELSE IF IsInstance(value, "int") THEN <<"integerValue", IntToStr(value[2])>>
    ELSE IF IsInstance(value, "float") THEN <<"doubleValue", value[2]>>
    ELSE IF value = PyNone THEN <<"nullValue", <<>>>>
    ELSE <<"stringValue", <<>>>>

\* A plausible slip: the test for int comes before the test for bool, so that
\* True and False are taken for integers.
RECURSIVE wrap_value_int_first(_)
wrap_value_int_first(value) ==
    IF IsInstance(value, "str") THEN <<"stringValue", value[2]>>
    ELSE IF IsInstance(value, "int") THEN
        <<"integerValue", IF value[1] = "bool" THEN IntToStr(IF value[2] THEN 1 ELSE 0)
                          ELSE IntToStr(value[2])>>
    ELSE IF IsInstance(value, "bool") THEN <<"booleanValue", value[2]>>
    ELSE IF IsInstance(value, "float") THEN <<"doubleValue", value[2]>>
    ELSE IF IsInstance(value, "list") THEN
        LET ws == [i \in 1..Len(value[2]) |-> wrap_value_int_first(value[2][i])]
        IN  IF \E i \in 1..Len(ws) : ws[i] = TypeError THEN TypeError
            ELSE <<"arrayValue", ws>>
    ELSE IF IsInstance(value, "dict") THEN
        LET fs == [k \in DOMAIN value[2] |-> wrap_value_int_first(value[2][k])]
        IN  IF \E k \in DOMAIN fs : fs[k] = TypeError THEN TypeError
            ELSE <<"mapValue", fs>>
    ELSE IF value = PyNone THEN <<"nullValue", <<>>>>
    ELSE TypeError

\* FirestoreClient._wrap_value and _to_firestore_fields; TypeError stands for
\* the exception, which leaves every enclosing call.
RECURSIVE wrap_value(_)
wrap_value(value) ==
    IF IsInstance(value, "str") THEN <<"stringValue", value[2]>>
    ELSE IF IsInstance(value, "bool") THEN <<"booleanValue", value[2]>>
    ELSE IF IsInstance(value, "int") THEN <<"integerValue", IntToStr(value[2])>>
    ELSE IF IsInstance(value, "float") THEN <<"doubleValue", value[2]>>
    ELSE IF IsInstance(value, "list") THEN
        LET ws == [i \in 1..Len(value[2]) |-> wrap_value(value[2][i])]
        IN  IF \E i \in 1..Len(ws) : ws[i] = TypeError THEN TypeError
            ELSE <<"arrayValue", ws>>
    ELSE IF IsInstance(value, "dict") THEN
        LET fs == [k \in DOMAIN value[2] |-> wrap_value(value[2][k])]
        IN  IF \E k \in DOMAIN fs : fs[k] = TypeError THEN TypeError
            ELSE <<"mapValue", fs>>
    ELSE IF value = PyNone THEN <<"nullValue", <<>>>>
    ELSE TypeError

to_firestore_fields(data) == wrap_value(PyDict(data))

\* The address of the upsert: .../documents/{collection}/{document_id}
DocPath(collection, document_id) == <<collection, document_id>>

\* The store after a PATCH of `fields` at `path` that succeeded: the document at
\* that address is replaced.
Upsert(st, path, fields) ==
    [x \in DOMAIN st \cup {path} |-> IF x = path THEN fields ELSE st[x]]

\* FirestoreClient.insert_document on a client whose cached token is `token`,
\* against the store `st`; patchOk says whether the store accepts the request.
insert_document(token, st, collection, document_id, document_data, exchangeOk, patchOk) ==
    LET tk == get_access_token(token, exchangeOk)
        firestore_fields == to_firestore_fields(document_data)
    IN  IF tk.raised \/ firestore_fields = TypeError
        THEN [raised |-> TRUE, token |-> tk.token, store |-> st,
              exchanged |-> tk.exchanged, sent |-> FALSE,
              error |-> IF tk.raised THEN "RefreshError" ELSE "TypeError"]
        ELSE [raised |-> ~patchOk, token |-> tk.token,
              store |-> IF patchOk
                        THEN Upsert(st, DocPath(collection, document_id), firestore_fields[2])
                        ELSE st,
              exchanged |-> tk.exchanged, sent |-> TRUE,
              error |-> IF patchOk THEN "none" ELSE "Exception"]

\* --------------------------------------------- Firestore client: its inputs

\* A value of a type _wrap_value has no branch for (a tuple, a set, a datetime).
PyOther == <<"other", <<>>>>

\* "a", and the float 1.5 (kept as its literal)
TextA == <<97>>
OnePointFive == "1.5"

\* The scalars: a str, the bools, ints (one of them negative), a float, None,
\* and a value of an unsupported type.
Scalars ==
    { PyStr(TextA), PyBool(TRUE), PyBool(FALSE), PyInt(1), PyInt(0 - 12),
      PyFloat(OnePointFive), PyNone, PyOther }

\* A list or a dict around values of V: the empty list, lists of one value,
\* dicts of one key, and dicts of two keys whose second value is a scalar.
Around(V) ==
    {PyList(<<>>)}
    \cup {PyList(<<v>>) : v \in V}
    \cup {PyDict([k \in {"k"} |-> v]) : v \in V}
    \cup {PyDict([k \in {"k", "m"} |-> IF k = "k" THEN v ELSE s]) :
            v \in V, s \in {PyInt(1), PyOther}}

\* Values nested up to three levels deep; lists of several scalars as well.
Flat == Scalars \cup {PyList(t) : t \in SeqsUpTo(Scalars, MaxListLen)} \cup Around(Scalars)
Nested == Flat \cup Around(Flat)
DocValues == Nested \cup Around(Nested)

\* Whether _wrap_value has a branch for every value inside v.
RECURSIVE Supported(_)
Supported(v) ==
    IF v[1] = "list" THEN \A i \in 1..Len(v[2]) : Supported(v[2][i])
    ELSE IF v[1] = "dict" THEN \A k \in DOMAIN v[2] : Supported(v[2][k])
    ELSE v[1] # "other"

\* The document_data given to insert_document on one client: flat and nested,
\* with and without a value of an unsupported type, at the top and three
\* levels down.
StoreDocs ==
    { [title |-> PyStr(TextA), n |-> PyInt(1)],
      [title |-> PyStr(TextA), words |-> PyList(<<PyDict([w |-> PyList(<<PyStr(TextA), PyNone>>)])>>)],
      [title |-> PyOther],
      [title |-> PyStr(TextA), words |-> PyList(<<PyDict([w |-> PyList(<<PyStr(TextA), PyOther>>)])>>)] }

\* "d1", "d2": document ids
StoreIds == {<<100, 49>>, <<100, 50>>}

\* ---------------------------------------------------------------- FCM client

\* Two device tokens.
DeviceTokens == {"tokenA", "tokenB"}

\* What one requests.post of send_to_tokens is answered with: an accepted
\* response with a JSON body, an accepted response whose body is not JSON, a
\* rejected response, or no response at all (requests.post raises).
PostOutcomes == {"ok", "okNotJson", "rejected", "transport"}

\* One request posted: the token of its message and what it was answered with.
Post(token, outcome) == [token |-> token, outcome |-> outcome]

\* response.json() of the accepted send to `token`
FcmResponse(token) == [name |-> token]

\* The body of the loop of send_to_tokens after requests.post: it has no
\* try/except, so requests.post raising and response.json() raising leave the
\* call; a rejected response is printed and the loop goes on.
after_post(outcome) ==
    IF outcome \in {"okNotJson", "transport"} THEN "Raised" ELSE "Loop"

\* if response.ok: responses.append(response.json())
append_response(responses, token, outcome) ==
    IF outcome = "ok" THEN Append(responses, FcmResponse(token)) ELSE responses

\* Two topics.
Topics == {"news_channel", "other_channel"}

\* What the requests.post of send_to_topic is answered with: no response at all
\* (requests.post raises), or a response with a status and a body that is JSON
\* or not.
NoAnswer == [net |-> FALSE, status |-> 0, json |-> FALSE]
Answer(st, json) == [net |-> TRUE, status |-> st, json |-> json]
TopicAnswers == {NoAnswer} \cup {Answer(st, json) : st \in Statuses, json \in BOOLEAN}

\* FCMClient.send_to_topic on a client whose cached token is `token`: the
\* headers take get_access_token(), one requests.post is made, and response.ok
\* (a status below 400) decides between `return response.json()` and
\* `raise Exception`. posts is the requests made, with what answered them.
send_to_topic(token, topic, exchangeOk, answer) ==
    LET tk == get_access_token(token, exchangeOk)
    IN  IF tk.raised
        THEN [raised |-> TRUE, token |-> tk.token, posts |-> <<>>, value |-> <<>>]
        ELSE IF answer.net /\ ~raise_for_status(answer.status) /\ answer.json
        THEN [raised |-> FALSE, token |-> tk.token, posts |-> <<Post(topic, answer)>>,
              value |-> <<FcmResponse(topic)>>]
        ELSE [raised |-> TRUE, token |-> tk.token, posts |-> <<Post(topic, answer)>>,
              value |-> <<>>]

\* ---------------------------------------------------------------- processor

\* constants.FIREBASE_COLLECTION
FIREBASE_COLLECTION == "FIREBASE_COLLECTION"

\* One call of a collaborator: its name, the run and the position in the
\* headline list of the article it is for, whether it returned, its argument
\* (for insert_document: document_id, and document_data as data).
Call(op, r, i, ok, arg) ==
    [op |-> op, run |-> r, i |-> i, ok |-> ok, arg |-> arg, data |-> PyNone]
CallWithData(op, r, i, ok, arg, data) ==
    [op |-> op, run |-> r, i |-> i, ok |-> ok, arg |-> arg, data |-> data]

\* A plausible slip: a failed analysis is swallowed inside process_article and
\* the article is stored with its metadata alone.
process_article_storing_unanalyzed(r, i, article, page, r1, r2, exchangeOk, patchOk, token, st) ==
    LET crawled == crawl_article("AP", article, page)
        c1 == Call("crawl_article", r, i, ~crawled.raised, article.url)
        analyzed == analyze_article(crawled.value, r1, r2)
        c2 == Call("analyze_article", r, i, ~analyzed.raised, PyStr(crawled.value.content[1]))
        document == IF analyzed.raised
                    THEN [k \in {"url", "title", "author", "imageUrl"} |-> article[k]]
                    ELSE analyzed.value
        url == document["url"]
        c3 == Call("url_to_document_id", r, i, IsStr(url), url)
        encoded_url == url_to_document_id(url[2])
        ins == insert_document(token, st, FIREBASE_COLLECTION, encoded_url,
                               document, exchangeOk, patchOk)
        c4 == CallWithData("insert_document", r, i, ~ins.raised, PyStr(encoded_url),
                           PyDict(document))
    IN  IF crawled.raised
        THEN [raised |-> TRUE, calls |-> <<c1>>, token |-> token, store |-> st]
        ELSE IF ~IsStr(url)
        THEN [raised |-> TRUE, calls |-> <<c1, c2, c3>>, token |-> token, store |-> st]
        ELSE [raised |-> ins.raised, calls |-> <<c1, c2, c3, c4>>,
              token |-> ins.token, store |-> ins.store]

\* A plausible slip: a guard on the crawled content, so that an article without
\* text is dropped before the analysis.
process_article_guarding_empty(r, i, article, page, r1, r2, exchangeOk, patchOk, token, st) ==
    LET crawled == crawl_article("AP", article, page)
        c1 == Call("crawl_article", r, i, ~crawled.raised, article.url)
        analyzed == analyze_article(crawled.value, r1, r2)
        c2 == Call("analyze_article", r, i, ~analyzed.raised, PyStr(crawled.value.content[1]))
        url == analyzed.value["url"]
        c3 == Call("url_to_document_id", r, i, IsStr(url), url)
        encoded_url == url_to_document_id(url[2])
        ins == insert_document(token, st, FIREBASE_COLLECTION, encoded_url,
                               analyzed.value, exchangeOk, patchOk)
        c4 == CallWithData("insert_document", r, i, ~ins.raised, PyStr(encoded_url),
                           PyDict(analyzed.value))
    IN  IF crawled.raised
        THEN [raised |-> TRUE, calls |-> <<c1>>, token |-> token, store |-> st]
        ELSE IF crawled.value.content[1] = <<>>
        THEN [raised |-> TRUE, calls |-> <<c1>>, token |-> token, store |-> st]
        ELSE IF analyzed.raised
        THEN [raised |-> TRUE, calls |-> <<c1, c2>>, token |-> token, store |-> st]
        ELSE IF ~IsStr(url)
        THEN [raised |-> TRUE, calls |-> <<c1, c2, c3>>, token |-> token, store |-> st]
        ELSE [raised |-> ins.raised, calls |-> <<c1, c2, c3, c4>>,
              token |-> ins.token, store |-> ins.store]

\* NewsProcessor.process_article on the article at position i of run r. The
\* result says whether it raised, the calls it made, and the client's token and
\* the store afterwards.
process_article(r, i, article, page, r1, r2, exchangeOk, patchOk, token, st) ==
    LET crawled == crawl_article("AP", article, page)
        c1 == Call("crawl_article", r, i, ~crawled.raised, article.url)
        analyzed == analyze_article(crawled.value, r1, r2)
        c2 == Call("analyze_article", r, i, ~analyzed.raised, PyStr(crawled.value.content[1]))
        url == analyzed.value["url"]
        c3 == Call("url_to_document_id", r, i, IsStr(url), url)
        encoded_url == url_to_document_id(url[2])
        ins == insert_document(token, st, FIREBASE_COLLECTION, encoded_url,
                               analyzed.value, exchangeOk, patchOk)
        c4 == CallWithData("insert_document", r, i, ~ins.raised, PyStr(encoded_url),
                           PyDict(analyzed.value))
    IN  IF crawled.raised
        THEN [raised |-> TRUE, calls |-> <<c1>>, token |-> token, store |-> st]
        ELSE IF analyzed.raised
        THEN [raised |-> TRUE, calls |-> <<c1, c2>>, token |-> token, store |-> st]
        ELSE IF ~IsStr(url)
        THEN [raised |-> TRUE, calls |-> <<c1, c2, c3>>, token |-> token, store |-> st]
        ELSE [raised |-> ins.raised, calls |-> <<c1, c2, c3, c4>>,
              token |-> ins.token, store |-> ins.store]

\* A plausible slip: no try/except around process_article, so that an
\* exception leaves run.
after_article_uncaught(raised) == IF raised THEN "Raised" ELSE "Loop"

\* The try/except of run's loop: whatever process_article did, the loop goes on.
after_article(raised) == "Loop"

\* total_articles, the default of run
DefaultTotal == 10

\* --------------------------------------------------------------- news service

\* A plausible slip: the article of a failed crawl is kept all the same.
collect_always(full, crawled) == Append(full, crawled.value)

\* The body of the loop of get_full_articles: the crawled article is appended,
\* a crawl that raised is skipped (except ... continue).
collect(full, crawled) == IF crawled.raised THEN full ELSE Append(full, crawled.value)

\* A plausible slip: the stub of a failed crawl is crawled again.
next_stub_retrying(i, raised) == IF raised THEN i ELSE i + 1

\* `for article in partial_articles`: after the body, whether it ended by the
\* append or by `continue`, the loop is at the next stub.
next_stub(i, raised) == i + 1

\* DefaultNewsService, VietnameseNewsService and CustomNewsService (which takes
\* any client and any crawler).
Services ==
    { [name |-> "Default", client |-> "NewsAPI", crawler |-> "AP"],
      [name |-> "Vietnamese", client |-> "NewsIO", crawler |-> "TuoiTre"] }
    \cup {[name |-> "Custom", client |-> c, crawler |-> k] :
            c \in {"NewsAPI", "NewsIO"}, k \in {"AP", "TuoiTre"}}

NoService == [name |-> "none", client |-> "none", crawler |-> "none"]

\* ------------------------------------------------------------ specifications

IdleId == url1 = <<>> /\ url2 = <<>> /\ id1 = <<>> /\ id2 = <<>> /\ idpc = "idle"
IdleHl ==
    /\ hlClient = "none" /\ hlTotal = 0 /\ hlResp = NetError
    /\ hlOut = Returned(<<>>) /\ hlpc = "idle"

EmptyStore == [x \in {} |-> <<>>]

IdleRun ==
    /\ pc = "idle" /\ runNo = 0 /\ articles = <<>> /\ idx = 0 /\ calls = <<>>
    /\ access_token = NoToken /\ store = EmptyStore
IdleSvc == service = NoService /\ full_articles = <<>>
IdleAn ==
    /\ anArticle = create_crawled_news(PartialArticle(PyNone, PyNone, PyNone, PyNone), <<>>)
    /\ anR1 = StageFailed /\ anR2 = StageFailed
    /\ anOut = AnalyzeRaised(<<>>) /\ anpc = "idle"

IdleCr ==
    /\ crCrawler = "none" /\ crNews = PartialArticle(PyNone, PyNone, PyNone, PyNone)
    /\ crPage = NoPage /\ crOut = Raised /\ crpc = "idle"
IdleFcm ==
    /\ fcmTokens = <<>> /\ fcmIdx = 0 /\ fcmSent = <<>> /\ fcmResponses = <<>>
    /\ fcmToken = NoToken /\ fcmpc = "idle"

IdleWr == wrValue = PyNone /\ wrOut = TypeError /\ wrpc = "idle"

\* ------------------------------------------------- url_to_document_id runs

InitId ==
    /\ IdleHl /\ IdleRun /\ IdleSvc /\ IdleAn /\ IdleCr /\ IdleFcm /\ IdleWr
    /\ url1 \in Urls
    /\ url2 \in Urls
    /\ id1 = <<>>
    /\ id2 = <<>>
    /\ idpc = "input"

\* Both URLs are converted.
DeriveIds ==
    /\ idpc = "input"
    /\ id1' = url_to_document_id(url1)
    /\ id2' = url_to_document_id(url2)
    /\ idpc' = "derived"
    /\ UNCHANGED <<url1, url2, hlVars, runVars, svcVars, anVars, crVars, fcmVars, wrVars>>

NextId == DeriveIds

SpecId == InitId /\ [][NextId]_vars

\* ------------------------------------------------------- get_headlines runs

InitHeadlines ==
    /\ IdleId /\ IdleRun /\ IdleSvc /\ IdleAn /\ IdleCr /\ IdleFcm /\ IdleWr
    /\ hlClient \in {"NewsAPI", "NewsIO"}
    /\ hlTotal \in 1..MaxTotal
    /\ hlResp \in Responses
    /\ hlOut = Returned(<<>>)
    /\ hlpc = "call"

\* One call of get_headlines(source_id, total) on the chosen client.
GetHeadlines ==
    /\ hlpc = "call"
    /\ hlOut' = get_headlines(hlClient, hlResp, hlTotal)
    /\ hlpc' = "ended"
    /\ UNCHANGED <<hlClient, hlTotal, hlResp, idVars, runVars, svcVars, anVars, crVars, fcmVars, wrVars>>

NextHeadlines == GetHeadlines

SpecHeadlines == InitHeadlines /\ [][NextHeadlines]_vars

\* ------------------------------------------------------------ processor runs

\* The records of the headline responses of a run: two addresses, one of them
\* twice under different titles, and a record without `url`.
RunRecords ==
    { ApiRecord(PyStr(Author), PyStr(T1), PyStr(UrlA), PyStr(Image)),
      [author |-> PyNone, title |-> PyStr(T2), url |-> PyStr(UrlB)],
      ApiRecord(PyStr(Author), PyStr(T3), PyStr(UrlA), PyNone),
      [author |-> PyStr(Author), title |-> PyStr(T4), image |-> PyStr(Image)] }

\* Lists of at most n records, none of them twice.
RECURSIVE ListsOfDistinct(_, _)
ListsOfDistinct(S, n) ==
    IF n = 0 THEN {<<>>}
    ELSE LET shorter == ListsOfDistinct(S, n - 1)
         IN  shorter \cup UNION {{Append(t, x) : x \in {y \in S : \A k \in 1..Len(t) : t[k] # y}} :
                                    t \in {q \in shorter : Len(q) = n - 1}}

RunResponses ==
    {NetError, Malformed(200), Malformed(500)}
    \cup {JsonBody(200, "success", MaxArticles, TRUE, recs) :
            recs \in ListsOfDistinct(RunRecords, MaxArticles)}

\* What the crawl of a run's article is answered with: no page, a page without
\* the content region, a page with it.
RunPages == {NoPage, Page(200, {}, Body), Page(200, {"RichTextBody"}, Body)}

\* The answers to the two remote calls of a run's analysis.
RunStep1Responses ==
    { StageFailed, StageOk(Step1Complete), StageOk(Drop(Step1Complete, "category")),
      StageOk(With([url |-> PyStr(UrlB)], Step1Complete)) }
RunStep2Responses == {StageFailed, StageOk(Step2Complete)}

\* The crawl_article calls made so far, in all runs.
Attempted == Cardinality({k \in 1..Len(calls) : calls[k].op = "crawl_article"})

InitRun ==
    /\ IdleId /\ IdleHl /\ IdleSvc /\ IdleAn /\ IdleCr /\ IdleFcm /\ IdleWr
    /\ pc = "Start"
    /\ runNo = 1
    /\ articles = <<>>
    /\ idx = 0
    /\ calls = <<>>
    /\ access_token = NoToken
    /\ store = EmptyStore

\* run, up to its loop: self.news_client.get_headlines(NEWS_SOURCE, total),
\* answered with one of `responses`; hlResp keeps the answer.
FetchFrom(responses) ==
    /\ pc = "Start"
    /\ \E resp \in responses :
        LET out == get_headlines("NewsAPI", resp, DefaultTotal)
        IN  /\ Len(out.value) + Attempted <= MaxArticles
            /\ calls' = Append(calls, Call("get_headlines", runNo, 0, ~out.raised, PyNone))
            /\ articles' = out.value
            /\ idx' = 1
            /\ pc' = IF out.raised THEN "Raised" ELSE "Loop"
            /\ hlResp' = resp
    /\ UNCHANGED <<runNo, access_token, store, hlClient, hlTotal, hlOut, hlpc,
                   idVars, svcVars, anVars, crVars, fcmVars, wrVars>>

Fetch == FetchFrom(RunResponses)

\* An answer exists only to a request that is made: the page decides whether
\* stage 1 is asked, the answer of stage 1 whether stage 2 is.
Crawls(page) == page.net /\ ~raise_for_status(page.status)
AsksStep2(r1) == r1.ok /\ "shortened" \in DOMAIN r1.data

\* One turn of run's loop: process_article on the next article, inside
\* try/except; the crawl and the two stages are answered from the sets given,
\* the token exchange (made only without a cached token) succeeds or not as
\* `exchanges` allows.
ProcessWith(pages, step1s, step2s, exchanges) ==
    /\ pc = "Loop"
    /\ idx <= Len(articles)
    /\ \E page \in pages :
       \E r1 \in IF Crawls(page) THEN step1s ELSE {StageFailed} :
       \E r2 \in IF Crawls(page) /\ AsksStep2(r1) THEN step2s ELSE {StageFailed} :
       \E exchangeOk \in IF r2.ok /\ access_token = NoToken THEN exchanges ELSE {TRUE} :
       \E patchOk \in IF r2.ok /\ exchangeOk THEN BOOLEAN ELSE {FALSE} :
        LET res == process_article(runNo, idx, articles[idx], page, r1, r2,
                                   exchangeOk, patchOk, access_token, store)
        IN  /\ calls' = calls \o res.calls
            /\ access_token' = res.token
            /\ store' = res.store
            /\ pc' = after_article(res.raised)
            /\ idx' = next_stub(idx, res.raised)
    /\ UNCHANGED <<runNo, articles, idVars, hlVars, svcVars, anVars, crVars, fcmVars, wrVars>>

ProcessNext == ProcessWith(RunPages, RunStep1Responses, RunStep2Responses, BOOLEAN)

\* The loop is over: run returns.
Finish ==
    /\ pc = "Loop"
    /\ idx > Len(articles)
    /\ pc' = "Done"
    /\ UNCHANGED <<runNo, articles, idx, calls, access_token, store, idVars, hlVars, svcVars, anVars, crVars, fcmVars, wrVars>>

NextRun == Fetch \/ ProcessNext \/ Finish

SpecRun == InitRun /\ [][NextRun]_vars

\* ----------------------------------------------------- process_article runs

\* The stubs get_headlines makes of the records of a run.
RunStubs ==
    { PartialArticle(Get(rec, "author"), Get(rec, "title"), Get(rec, "url"), Get(rec, "image")) :
        rec \in RunRecords }

\* One article in front of process_article: the stub, the page its crawl is
\* answered with and the answers the two stages give when they are asked.
InitProcess ==
    /\ IdleId /\ IdleHl /\ IdleSvc /\ IdleFcm /\ IdleWr
    /\ pc = "Article"
    /\ runNo = 1
    /\ articles \in {<<stub>> : stub \in RunStubs}
    /\ idx = 1
    /\ calls = <<>>
    /\ access_token \in {NoToken, Token}
    /\ store = EmptyStore
    /\ crCrawler = "AP"
    /\ crNews = articles[1]
    /\ crPage \in RunPages
    /\ crOut = Raised
    /\ crpc = "idle"
    /\ anArticle = create_crawled_news(PartialArticle(PyNone, PyNone, PyNone, PyNone), <<>>)
    /\ anR1 \in Step1Responses
    /\ anR2 \in Step2Responses
    /\ anOut = AnalyzeRaised(<<>>)
    /\ anpc = "idle"

\* One call of process_article(article).
Process ==
    /\ pc = "Article"
    /\ \E exchangeOk \in IF access_token = NoToken THEN BOOLEAN ELSE {TRUE} :
       \E patchOk \in IF exchangeOk THEN BOOLEAN ELSE {FALSE} :
        LET res == process_article(runNo, idx, articles[idx], crPage, anR1, anR2,
                                   exchangeOk, patchOk, access_token, store)
        IN  /\ calls' = calls \o res.calls
            /\ access_token' = res.token
            /\ store' = res.store
            /\ pc' = IF res.raised THEN "Raised" ELSE "Returned"
    /\ UNCHANGED <<runNo, articles, idx, idVars, hlVars, svcVars, anVars, crVars, fcmVars, wrVars>>

NextProcess == Process

SpecProcess == InitProcess /\ [][NextProcess]_vars

\* ------------------------------------------- runs repeated on the same store

\* The records of the headline responses of repeated runs: two addresses, one of
\* them under two titles.
RerunRecords == {rec \in RunRecords : "url" \in DOMAIN rec}

RerunResponses ==
    {Malformed(200)}
    \cup {JsonBody(200, "success", MaxArticles, TRUE, recs) :
            recs \in ListsOfDistinct(RerunRecords, MaxArticles)}

\* Stage 1 answers completely, with or without a `url` of its own.
RerunStep1Responses ==
    {StageOk(Step1Complete), StageOk(With([url |-> PyStr(UrlB)], Step1Complete))}

\* The crawl is answered with no page or with a page that has the content region.
RerunPages == {NoPage, Page(200, {"RichTextBody"}, Body)}

Refetch == FetchFrom(RerunResponses)

Reprocess == ProcessWith(RerunPages, RerunStep1Responses, {StageOk(Step2Complete)}, {TRUE})

\* The program is started again: a new processor and client, the same store.
Restart ==
    /\ pc \in {"Done", "Raised"}
    /\ runNo < MaxRuns
    /\ Attempted < MaxArticles
    /\ pc' = "Start"
    /\ runNo' = runNo + 1
    /\ articles' = <<>>
    /\ idx' = 0
    /\ access_token' = NoToken
    /\ UNCHANGED <<calls, store, idVars, hlVars, svcVars, anVars, crVars, fcmVars, wrVars>>

NextRerun == Refetch \/ Reprocess \/ Finish \/ Restart

SpecRerun == InitRun /\ [][NextRerun]_vars

\* ---------------------------------------------------- get_full_articles runs

InitSvc ==
    /\ IdleId /\ IdleHl /\ IdleAn /\ IdleCr /\ IdleFcm /\ IdleWr
    /\ service \in Services
    /\ full_articles = <<>>
    /\ pc = "Start"
    /\ runNo = 1
    /\ articles = <<>>
    /\ idx = 0
    /\ calls = <<>>
    /\ access_token = NoToken
    /\ store = EmptyStore

\* get_full_articles, up to its loop: self.news_client.get_headlines(source_id, total)
SvcFetch ==
    /\ pc = "Start"
    /\ \E resp \in RunResponses, total \in 1..MaxTotal :
        LET out == get_headlines(service.client, resp, total)
        IN  /\ calls' = Append(calls, Call("get_headlines", runNo, 0, ~out.raised, PyNone))
            /\ articles' = out.value
            /\ idx' = 1
            /\ pc' = IF out.raised THEN "Raised" ELSE "Loop"
    /\ UNCHANGED <<runNo, access_token, store, service, full_articles, idVars, hlVars, anVars, crVars, fcmVars, wrVars>>

\* One turn of the loop of get_full_articles: crawl_article inside try/except.
SvcCrawl ==
    /\ pc = "Loop"
    /\ idx <= Len(articles)
    /\ \E page \in Pages :
        LET crawled == crawl_article(service.crawler, articles[idx], page)
        IN  /\ calls' = Append(calls, Call("crawl_article", runNo, idx, ~crawled.raised,
                                           articles[idx].url))
            /\ full_articles' = collect(full_articles, crawled)
            /\ idx' = next_stub(idx, crawled.raised)
    /\ UNCHANGED <<pc, runNo, articles, access_token, store, service, idVars, hlVars, anVars, crVars, fcmVars, wrVars>>

\* The loop is over: get_full_articles returns full_articles.
SvcReturn ==
    /\ pc = "Loop"
    /\ idx > Len(articles)
    /\ pc' = "Done"
    /\ UNCHANGED <<runNo, articles, idx, calls, access_token, store, svcVars, idVars, hlVars, anVars, crVars, fcmVars, wrVars>>

NextSvc == SvcFetch \/ SvcCrawl \/ SvcReturn

SpecSvc == InitSvc /\ [][NextSvc]_vars

\* ------------------------------------------------------- crawl_article runs

\* The stubs given to crawl_article: those get_headlines makes of the records.
CrawledStubs ==
    { PartialArticle(Get(rec, "author"), Get(rec, "title"), Get(rec, "url"), Get(rec, "image")) :
        rec \in RunRecords }

InitCrawl ==
    /\ IdleId /\ IdleHl /\ IdleRun /\ IdleSvc /\ IdleAn /\ IdleFcm /\ IdleWr
    /\ crCrawler \in {"AP", "TuoiTre"}
    /\ crNews \in CrawledStubs
    /\ crPage \in Pages
    /\ crOut = Raised
    /\ crpc = "call"

\* One call of crawl_article(news).
Crawl ==
    /\ crpc = "call"
    /\ crOut' = LET crawled == crawl_article(crCrawler, crNews, crPage)
                IN  IF crawled.raised THEN Raised ELSE Returned(crawled.value)
    /\ crpc' = "ended"
    /\ UNCHANGED <<crCrawler, crNews, crPage, idVars, hlVars, runVars, svcVars, anVars, fcmVars, wrVars>>

NextCrawl == Crawl

SpecCrawl == InitCrawl /\ [][NextCrawl]_vars

\* ------------------------------------------------------- _wrap_value runs

InitWrap ==
    /\ IdleId /\ IdleHl /\ IdleRun /\ IdleSvc /\ IdleAn /\ IdleCr /\ IdleFcm
    /\ wrValue \in DocValues
    /\ wrOut = TypeError
    /\ wrpc = "call"

\* One call of _wrap_value(value).
Wrap ==
    /\ wrpc = "call"
    /\ wrOut' = wrap_value(wrValue)
    /\ wrpc' = "ended"
    /\ UNCHANGED <<wrValue, idVars, hlVars, runVars, svcVars, anVars, crVars, fcmVars>>

NextWrap == Wrap

SpecWrap == InitWrap /\ [][NextWrap]_vars

\* ------------------------------------- insert_document calls on one client

InitStore ==
    /\ IdleId /\ IdleHl /\ IdleSvc /\ IdleAn /\ IdleCr /\ IdleFcm /\ IdleWr
    /\ pc = "Client"
    /\ runNo = 1
    /\ articles = <<>>
    /\ idx = 0
    /\ calls = <<>>
    /\ access_token = NoToken
    /\ store = EmptyStore

\* One call of insert_document(collection, document_id, document_data) on the
\* client. The token exchange is answered only when it is made, the PATCH only
\* when it is sent. The log gets the exchange (if made), the PATCH (if sent,
\* with the token it carried) and the call itself.
Insert ==
    /\ pc = "Client"
    /\ idx < MaxInserts
    /\ \E doc \in StoreDocs, id \in StoreIds :
       \E exchangeOk \in IF access_token = NoToken THEN BOOLEAN ELSE {TRUE} :
       \E patchOk \in IF exchangeOk /\ Supported(PyDict(doc)) THEN BOOLEAN ELSE {FALSE} :
        LET res == insert_document(access_token, store, FIREBASE_COLLECTION, id, doc,
                                   exchangeOk, patchOk)
            exchange == Call("exchange", runNo, idx + 1, res.token # NoToken, PyNone)
            patch == CallWithData("patch", runNo, idx + 1, patchOk, PyStr(id),
                                  [token |-> res.token, fields |-> to_firestore_fields(doc)])
            call == CallWithData("insert_document", runNo, idx + 1, ~res.raised, PyStr(id),
                                 [document_data |-> PyDict(doc), error |-> res.error,
                                  before |-> store, after |-> res.store])
        IN  /\ calls' = calls \o (IF res.exchanged THEN <<exchange>> ELSE <<>>)
                              \o (IF res.sent THEN <<patch>> ELSE <<>>) \o <<call>>
            /\ access_token' = res.token
            /\ store' = res.store
    /\ idx' = idx + 1
    /\ UNCHANGED <<pc, runNo, articles, idVars, hlVars, svcVars, anVars, crVars, fcmVars, wrVars>>

NextStore == Insert

SpecStore == InitStore /\ [][NextStore]_vars

\* ------------------------------------------------------ send_to_tokens runs

InitSend ==
    /\ IdleId /\ IdleHl /\ IdleRun /\ IdleSvc /\ IdleAn /\ IdleCr /\ IdleWr
    /\ fcmTokens \in SeqsUpTo(DeviceTokens, MaxTokens)
    /\ fcmIdx = 0
    /\ fcmSent = <<>>
    /\ fcmResponses = <<>>
    /\ fcmToken \in {NoToken, Token}
    /\ fcmpc = "Start"

\* send_to_tokens, up to its loop: the headers are built with
\* self.get_access_token(), which exchanges the credentials on a client without
\* a cached token.
SendStart ==
    /\ fcmpc = "Start"
    /\ \E exchangeOk \in IF fcmToken = NoToken THEN BOOLEAN ELSE {TRUE} :
        LET tk == get_access_token(fcmToken, exchangeOk)
        IN  /\ fcmToken' = tk.token
            /\ fcmpc' = IF tk.raised THEN "Raised" ELSE "Loop"
    /\ fcmIdx' = 1
    /\ UNCHANGED <<fcmTokens, fcmSent, fcmResponses,
                   idVars, hlVars, runVars, svcVars, anVars, crVars, wrVars>>

\* One turn of the loop of send_to_tokens: the message for the next token is
\* posted.
SendNext ==
    /\ fcmpc = "Loop"
    /\ fcmIdx <= Len(fcmTokens)
    /\ \E outcome \in PostOutcomes :
        /\ fcmSent' = Append(fcmSent, Post(fcmTokens[fcmIdx], outcome))
        /\ fcmResponses' = append_response(fcmResponses, fcmTokens[fcmIdx], outcome)
        /\ fcmpc' = after_post(outcome)
    /\ fcmIdx' = fcmIdx + 1
    /\ UNCHANGED <<fcmTokens, fcmToken, idVars, hlVars, runVars, svcVars, anVars, crVars, wrVars>>

\* The loop is over: send_to_tokens returns {"responses": responses}.
SendReturn ==
    /\ fcmpc = "Loop"
    /\ fcmIdx > Len(fcmTokens)
    /\ fcmpc' = "Done"
    /\ UNCHANGED <<fcmTokens, fcmIdx, fcmSent, fcmResponses, fcmToken,
                   idVars, hlVars, runVars, svcVars, anVars, crVars, wrVars>>

NextSend == SendStart \/ SendNext \/ SendReturn

SpecSend == InitSend /\ [][NextSend]_vars

\* ---------------------------------------- send_to_topic calls on one client

InitTopic ==
    /\ IdleId /\ IdleHl /\ IdleRun /\ IdleSvc /\ IdleAn /\ IdleCr /\ IdleWr
    /\ fcmTokens = <<>>
    /\ fcmIdx = 0
    /\ fcmSent = <<>>
    /\ fcmResponses = <<>>
    /\ fcmToken = NoToken
    /\ fcmpc = "Client"

\* One call of send_to_topic(topic, title, body) on the client. The token
\* exchange is answered only when it is made. fcmSent gets the requests of the
\* call, fcmResponses how the call ended.
SendToTopic ==
    /\ fcmpc = "Client"
    /\ fcmIdx < MaxSends
    /\ \E topic \in Topics, answer \in TopicAnswers :
       \E exchangeOk \in IF fcmToken = NoToken THEN BOOLEAN ELSE {TRUE} :
        LET res == send_to_topic(fcmToken, topic, exchangeOk, answer)
        IN  /\ fcmToken' = res.token
            /\ fcmSent' = fcmSent \o [k \in 1..Len(res.posts) |->
                                        [call |-> fcmIdx + 1, post |-> res.posts[k]]]
            /\ fcmResponses' = Append(fcmResponses,
                                  [topic |-> topic, token |-> res.token,
                                   raised |-> res.raised, value |-> res.value])
    /\ fcmIdx' = fcmIdx + 1
    /\ UNCHANGED <<fcmTokens, fcmpc, idVars, hlVars, runVars, svcVars, anVars, crVars, wrVars>>

NextTopic == SendToTopic

SpecTopic == InitTopic /\ [][NextTopic]_vars

\* ------------------------------------------------------ analyze_article runs

\* The articles given to analyze_article: crawled from the stubs get_headlines
\* makes of the records, with and without content.
AnalyzedArticles ==
    { create_crawled_news(
          PartialArticle(Get(rec, "author"), Get(rec, "title"), Get(rec, "url"), Get(rec, "image")),
          <<content>>) : rec \in RunRecords, content \in {<<>>, Body} }

InitAnalyze ==
    /\ IdleId /\ IdleHl /\ IdleRun /\ IdleSvc /\ IdleCr /\ IdleFcm /\ IdleWr
    /\ anArticle \in AnalyzedArticles
    /\ anR1 \in Step1Responses
    /\ anR2 \in Step2Responses
    /\ anOut = AnalyzeRaised(<<>>)
    /\ anpc = "call"

\* One call of analyze_article(article).
Analyze ==
    /\ anpc = "call"
    /\ anOut' = analyze_article(anArticle, anR1, anR2)
    /\ anpc' = "ended"
    /\ UNCHANGED <<anArticle, anR1, anR2, idVars, hlVars, runVars, svcVars, crVars, fcmVars, wrVars>>

NextAnalyze == Analyze

SpecAnalyze == InitAnalyze /\ [][NextAnalyze]_vars

\* ------------------------------------------- properties of the identifier

\* The decoder of an identifier: restore '=' to a multiple of 4, then
\* base64.urlsafe_b64decode.
SextetOf(c) ==
    IF c >= 65 /\ c <= 90 THEN c - 65
    ELSE IF c >= 97 /\ c <= 122 THEN c - 97 + 26
    ELSE IF c >= 48 /\ c <= 57 THEN c - 48 + 52
    ELSE IF c = 45 THEN 62
    ELSE 63

RECURSIVE RestorePadding(_)
RestorePadding(s) ==
    IF Len(s) % 4 = 0 THEN s ELSE RestorePadding(Append(s, PadChar))

RECURSIVE urlsafe_b64decode(_)
urlsafe_b64decode(s) ==
    IF Len(s) < 4 THEN <<>>
    ELSE LET a == SextetOf(s[1])
             b == SextetOf(s[2])
             c == SextetOf(s[3])
             d == SextetOf(s[4])
             b1 == a * 4 + (b \div 16)
             b2 == (b % 16) * 16 + (c \div 4)
             b3 == (c % 4) * 64 + d
         IN  IF s[3] = PadChar THEN <<b1>>
             ELSE IF s[4] = PadChar THEN <<b1, b2>>
             ELSE <<b1, b2, b3>> \o urlsafe_b64decode(SubSeq(s, 5, Len(s)))

\* C7: decoding the identifier after restoring its padding gives back exactly
\* the UTF-8 bytes of the URL, and two different URLs never get the same
\* identifier.
C7_Reversible ==
    idpc = "derived" =>
        /\ urlsafe_b64decode(RestorePadding(id1)) = Utf8Encode(url1)
        /\ urlsafe_b64decode(RestorePadding(id2)) = Utf8Encode(url2)
        /\ (url1 # url2 => id1 # id2)

\* Two different URLs with '?', '%' and non-ASCII characters, whose identifiers
\* are "P8Op" and "JeKCrA" (padding stripped), have been converted.
C7_Witness ==
    /\ idpc = "derived"
    /\ url1 = <<63, 233>>
    /\ url2 = <<37, 8364>>
    /\ id1 = <<80, 56, 79, 112>>
    /\ id2 = <<74, 101, 75, 67, 114, 65>>

\* Letters, digits, '-' and '_'.
UrlSafeAlphabet == (65..90) \cup (97..122) \cup (48..57) \cup {45, 95}

\* '/', which separates the segments of the upsert address
\* .../documents/{collection}/{document_id}
Slash == 47

\* The identifier is one segment of an address: it has characters of the
\* URL-safe alphabet only, so neither '=' nor '/'.
OneSegment(id) ==
    \A k \in 1..Len(id) : id[k] \in UrlSafeAlphabet /\ id[k] # PadChar /\ id[k] # Slash

\* C30: the identifier of every URL has no '=' and only letters, digits, '-'
\* and '_', so no '/': it is a single segment of the upsert address, and not
\* an empty one unless the URL is empty.
C30_SinglePathSegment ==
    idpc = "derived" =>
        /\ OneSegment(id1) /\ OneSegment(id2)
        /\ (url1 # <<>> => id1 # <<>>)
        /\ (url2 # <<>> => id2 # <<>>)

\* The URL "?" followed by U+1F600 has the identifier "P_CfmIA": it has '_'
\* where the standard alphabet has '/', and its padding was stripped; the
\* second URL is one character long and lost two padding characters.
C30_Witness ==
    /\ idpc = "derived"
    /\ url1 = <<63, 128512>>
    /\ id1 = <<80, 95, 67, 102, 109, 73, 65>>
    /\ Len(url2) = 1
    /\ Len(urlsafe_b64encode(Utf8Encode(url2))) = Len(id2) + 2

\* ------------------------------------------- properties of get_headlines

\* C9: get_headlines never returns more than `total` stubs, whatever number of
\* records the upstream response holds.
C9_AtMostTotal ==
    (hlpc = "ended" /\ ~hlOut.raised) => Len(hlOut.value) <= hlTotal

\* C10: on a transport failure (no response, or a status that is not 2xx),
\* get_headlines returns an empty list and does not raise.
C10_TransportFailureGivesEmpty ==
    (hlpc = "ended" /\ (~hlResp.net \/ hlResp.status < 200 \/ hlResp.status > 299)) =>
        (~hlOut.raised /\ hlOut.value = <<>>)

\* C10, for the failures the code catches: no response, or a 4xx / 5xx status,
\* gives the empty list.
C10_ErrorStatusGivesEmpty ==
    (hlpc = "ended" /\ (~hlResp.net \/ raise_for_status(hlResp.status))) =>
        (~hlOut.raised /\ hlOut.value = <<>>)

\* C11: a 2xx response whose body is not JSON makes get_headlines return the
\* empty list; it does not raise.
C11_MalformedBodyGivesEmpty ==
    (hlpc = "ended" /\ hlResp.net /\ hlResp.status >= 200 /\ hlResp.status <= 299
        /\ ~hlResp.json) =>
        (~hlOut.raised /\ hlOut.value = <<>>)

\* The NewsData.io client has returned a list.
NewsIOReturned == hlpc = "ended" /\ hlClient = "NewsIO" /\ ~hlOut.raised

\* C29: every stub the NewsData.io client returns has a non-empty title and a
\* non-empty url, and an answer whose status is not `success` or whose
\* totalResults is 0 gives the empty list.
C29_StubsHaveTitleAndUrl ==
    NewsIOReturned =>
        /\ \A k \in 1..Len(hlOut.value) :
            Truthy(hlOut.value[k].title) /\ Truthy(hlOut.value[k].url)
        /\ (hlResp.apiStatus # "success" \/ hlResp.totalResults = 0) => hlOut.value = <<>>

\* C29, without the title: every stub the NewsData.io client returns has a
\* non-empty url and comes from a record whose title was non-empty before it
\* was stripped, and an answer whose status is not `success` or whose
\* totalResults is 0 gives the empty list.
C29_StubsHaveUrl ==
    NewsIOReturned =>
        /\ \A k \in 1..Len(hlOut.value) :
            /\ Truthy(hlOut.value[k].url)
            /\ \E j \in 1..Len(hlResp.records) :
                /\ Truthy(Get(hlResp.records[j], "title"))
                /\ strip(hlResp.records[j]["title"][2]) = hlOut.value[k].title[2]
                /\ Get(hlResp.records[j], "url") = hlOut.value[k].url
        /\ (hlResp.apiStatus # "success" \/ hlResp.totalResults = 0) => hlOut.value = <<>>

\* -------------------------------------------------- properties of the run

\* The calls named op made in run r, in the order they were made.
CallsOf(op, r) == SelectSeq(calls, LAMBDA c : c.op = op /\ c.run = r)

\* The positions (in the headline list) of a sequence of calls.
Positions(cs) == [k \in 1..Len(cs) |-> cs[k].i]

\* The sequence 1, 2, ..., n
UpTo(n) == [k \in 1..n |-> k]

\* The insert_document calls (as positions in calls) that succeeded.
StoredCalls == {k \in 1..Len(calls) : calls[k].op = "insert_document" /\ calls[k].ok}

\* The address of the stub that the call at position k of calls is for: the
\* argument of the crawl_article call of the same article.
StubUrl(k) ==
    LET c == CHOOSE j \in 1..Len(calls) :
                /\ calls[j].op = "crawl_article"
                /\ calls[j].run = calls[k].run
                /\ calls[j].i = calls[k].i
    IN  calls[c].arg

\* C1: an exception while processing one article (crawl, analysis, identifier,
\* store) never aborts the batch: at every moment of the loop the articles
\* before the current one have each been attempted once, in headline order,
\* run ends normally with all of them attempted, and it never ends by an
\* exception once the headline list is there.
C1_EveryArticleAttempted ==
    /\ pc = "Loop" => Positions(CallsOf("crawl_article", runNo)) = UpTo(idx - 1)
    /\ pc = "Done" => Positions(CallsOf("crawl_article", runNo)) = UpTo(Len(articles))
    /\ pc = "Raised" => CallsOf("crawl_article", runNo) = <<>>

\* A run of three articles is over: the crawl of the first raised, the
\* analysis of the second raised, the store call of the third raised.
C1_Witness ==
    /\ pc = "Done"
    /\ Len(articles) = 3
    /\ \E k \in 1..Len(calls) :
        calls[k].op = "crawl_article" /\ calls[k].run = runNo /\ calls[k].i = 1 /\ ~calls[k].ok
    /\ \E k \in 1..Len(calls) :
        calls[k].op = "analyze_article" /\ calls[k].run = runNo /\ calls[k].i = 2 /\ ~calls[k].ok
    /\ \E k \in 1..Len(calls) :
        calls[k].op = "insert_document" /\ calls[k].run = runNo /\ calls[k].i = 3 /\ ~calls[k].ok

\* The title of the article at position i of the current run.
TitleOf(i) == articles[i].title

\* C2: at the end of a run, no send_to_topic call was made if no article
\* succeeded; otherwise exactly one was made, after the last article was
\* attempted, and its body is the title of the article that succeeded last.
C2_NotifiesOnceWithLastTitle ==
    pc = "Done" =>
        LET sent == CallsOf("send_to_topic", runNo)
            succeeded == SelectSeq(CallsOf("insert_document", runNo), LAMBDA c : c.ok)
        IN  IF succeeded = <<>> THEN sent = <<>>
            ELSE /\ Len(sent) = 1
                 /\ calls[Len(calls)].op = "send_to_topic"
                 /\ sent[1].arg = TitleOf(succeeded[Len(succeeded)].i)

\* The articles of the current run whose crawl, analysis and store call all
\* returned.
Succeeded ==
    {i \in 1..Len(articles) :
        \E k \in StoredCalls : calls[k].run = runNo /\ calls[k].i = i}

\* C3, the documents: after the first run the store holds
\* exactly the documents of the stubs that succeeded, each at the address made
\* of its stub's URL, and nothing for a stub whose crawl raised.
C3_StoredAreTheSucceeded ==
    (pc = "Done" /\ runNo = 1) =>
        DOMAIN store =
            {DocPath(FIREBASE_COLLECTION, url_to_document_id(articles[i].url[2])) :
                i \in Succeeded}

\* C3's scenario: three stubs, the crawl of the second raised, the other
\* two were crawled, analyzed and stored.
C3_Scenario ==
    /\ pc = "Done"
    /\ runNo = 1
    /\ Len(articles) = 3
    /\ Succeeded = {1, 3}
    /\ \E k \in 1..Len(calls) :
        calls[k].op = "crawl_article" /\ calls[k].i = 2 /\ ~calls[k].ok

\* C3: the documents stored are those of the stubs that succeeded, and in the
\* scenario exactly two insert_document calls succeed, for stubs 1 and 3 in
\* that order, and the final notification body is the title of stub 3.
C3_TwoStoredAndThirdTitleNotified ==
    /\ C3_StoredAreTheSucceeded
    /\ C3_Scenario =>
        /\ Positions(SelectSeq(CallsOf("insert_document", 1), LAMBDA c : c.ok)) = <<1, 3>>
        /\ calls[Len(calls)].op = "send_to_topic"
        /\ calls[Len(calls)].arg = TitleOf(3)

\* The keys the two function schemas require.
RequiredKeys ==
    {"shortened", "sentences", "category", "difficulty",
     "easy_words", "medium_words", "hard_words", "quiz"}

\* C5: an analyzer response that is unparsable or lacks a required field makes
\* the analysis of that article fail, so no document is stored for it: every
\* document_data given to insert_document has every required key.
C5_NoStoreWithoutRequiredField ==
    \A k \in 1..Len(calls) :
        calls[k].op = "insert_document" => RequiredKeys \subseteq DOMAIN calls[k].data[2]

\* C5, for an analysis that raises: an article whose analysis raised is never given
\* to insert_document, and the articles after it are still processed.
C5_FailedAnalysisIsNotStored ==
    \A k \in 1..Len(calls) :
        (calls[k].op = "analyze_article" /\ ~calls[k].ok) =>
            /\ ~\E j \in 1..Len(calls) :
                  calls[j].op = "insert_document" /\ calls[j].run = calls[k].run
                  /\ calls[j].i = calls[k].i
            /\ (k = Len(calls) /\ calls[k].run = runNo) => pc \in {"Loop", "Done"}

\* The last successful insert_document call for the stub address u.
LastStored(u) ==
    CHOOSE k \in StoredCalls :
        /\ StubUrl(k) = u
        /\ \A j \in StoredCalls : StubUrl(j) = u => j <= k

\* C6: however often an address is processed, within a run or across runs,
\* there is one document for it: every successful insert for an address goes
\* to the address made of that URL alone, the store holds there the data
\* of the latest of them, and it holds as many documents as distinct
\* addresses were stored.
C6_OneDocumentPerUrl ==
    LET urls == {StubUrl(k) : k \in StoredCalls}
    IN  /\ \A k \in StoredCalls :
            calls[k].arg = PyStr(url_to_document_id(StubUrl(k)[2]))
        /\ Cardinality(DOMAIN store) = Cardinality(urls)
        /\ \A u \in urls :
            store[DocPath(FIREBASE_COLLECTION, url_to_document_id(u[2]))]
                = to_firestore_fields(calls[LastStored(u)].data[2])[2]

\* The same address was stored in the first run under one title and in the
\* second run under another: the store holds one document, with the later title.
C6_Witness ==
    /\ pc = "Done"
    /\ runNo = 2
    /\ \E j, k \in StoredCalls :
        /\ calls[j].run = 1 /\ calls[k].run = 2
        /\ StubUrl(j) = PyStr(UrlA) /\ StubUrl(k) = PyStr(UrlA)
        /\ calls[j].data[2]["title"] = PyStr(T1)
        /\ calls[k].data[2]["title"] = PyStr(T3)
    /\ Cardinality(DOMAIN store) = 1
    /\ store[DocPath(FIREBASE_COLLECTION, url_to_document_id(UrlA))]["title"]
         = <<"stringValue", T3>>

C14_CrawlsBeforeAnalyses ==
    /\ calls # <<>> => calls[1].op = "get_headlines"
    /\ \A j, k \in 1..Len(calls) :
        (j < k /\ calls[j].run = calls[k].run /\ calls[j].op = "analyze_article")
            => calls[k].op # "crawl_article"

\* C14, for the headline fetch: every call of a run comes after that run's one
\* get_headlines call.
C14_HeadlinesFirst ==
    \A k \in 1..Len(calls) :
        calls[k].op # "get_headlines" =>
            \E j \in 1..(k - 1) : calls[j].op = "get_headlines" /\ calls[j].run = calls[k].run

\* The positions in `calls` of the calls of `op` for the article at position i
\* of run r.
CallsFor(op, r, i) == {k \in 1..Len(calls) : calls[k].op = op /\ calls[k].run = r /\ calls[k].i = i}

\* C22: insert_document is called for an article only after analyze_article has
\* returned for that article, at most once, and never for an article whose
\* analysis raised.
C22_StoreOnlyAfterAnalysis ==
    \A k \in 1..Len(calls) :
        calls[k].op = "insert_document" =>
            /\ \E j \in CallsFor("analyze_article", calls[k].run, calls[k].i) :
                    j < k /\ calls[j].ok
            /\ \A j \in CallsFor("analyze_article", calls[k].run, calls[k].i) : calls[j].ok
            /\ CallsFor("insert_document", calls[k].run, calls[k].i) = {k}

\* A finished run in which one article was analyzed and then given to
\* insert_document, and another one's analysis raised.
C22_Witness ==
    /\ pc = "Done"
    /\ \E k \in 1..Len(calls) : calls[k].op = "insert_document"
    /\ \E j \in 1..Len(calls) :
        /\ calls[j].op = "analyze_article" /\ ~calls[j].ok
        /\ CallsFor("insert_document", calls[j].run, calls[j].i) = {}

\* C23: in a run, no article of the headline list gets more than one
\* crawl_article call, more than one analyze_article call or more than one
\* insert_document call, whichever of these calls failed.
C23_NoRetry ==
    \A r \in 1..runNo : \A i \in 1..MaxArticles :
        \A op \in {"crawl_article", "analyze_article", "insert_document"} :
            Cardinality(CallsFor(op, r, i)) <= 1

\* A finished run of three articles: the crawl of one raised, the analysis of
\* another raised, and the insert_document call of the third raised.
C23_Witness ==
    /\ pc = "Done"
    /\ Len(articles) = 3
    /\ \E a, b, c \in 1..Len(calls) :
        /\ calls[a].op = "crawl_article" /\ ~calls[a].ok
        /\ calls[b].op = "analyze_article" /\ ~calls[b].ok
        /\ calls[c].op = "insert_document" /\ ~calls[c].ok

\* The analyze_article calls that were given empty text.
AnalyzedEmpty ==
    {k \in 1..Len(calls) : calls[k].op = "analyze_article" /\ calls[k].arg = PyStr(<<>>)}

\* C25: every article whose crawl returned, whatever its content, is given to
\* analyze_article; an article analyzed from empty text whose analysis returned
\* goes on to url_to_document_id and, with a text address, to insert_document
\* with the analysis as document; when that call returns, the store holds a
\* document at its address.
C25_EmptyContentIsNotGuarded ==
    /\ \A k \in 1..Len(calls) :
        (calls[k].op = "crawl_article" /\ calls[k].ok) =>
            \E j \in CallsFor("analyze_article", calls[k].run, calls[k].i) : j > k
    /\ \A k \in AnalyzedEmpty :
        calls[k].ok =>
            /\ \E j \in CallsFor("url_to_document_id", calls[k].run, calls[k].i) : j > k
            /\ \A j \in CallsFor("url_to_document_id", calls[k].run, calls[k].i) :
                calls[j].ok =>
                    \E c \in CallsFor("insert_document", calls[k].run, calls[k].i) :
                        /\ c > j
                        /\ calls[c].arg = PyStr(url_to_document_id(calls[j].arg[2]))
                        /\ calls[c].data[2]["url"] = calls[j].arg
                        /\ calls[c].ok =>
                            DocPath(FIREBASE_COLLECTION, calls[c].arg[2]) \in DOMAIN store

\* A finished run in which an article was analyzed from empty text and its
\* insert_document call returned.
C25_Witness ==
    /\ pc = "Done"
    /\ \E k \in AnalyzedEmpty :
        /\ calls[k].ok
        /\ \E c \in CallsFor("insert_document", calls[k].run, calls[k].i) : calls[c].ok

\* ---------------------------------------- properties of process_article

\* C26: whatever the stages answer, the document given to insert_document has
\* the stub's address as `url` and is stored under the identifier
\* url_to_document_id makes of the stub's address.
C26_IdentifierFromStub ==
    \A k \in 1..Len(calls) :
        calls[k].op = "insert_document" =>
            /\ IsStr(articles[calls[k].i].url)
            /\ calls[k].data[2]["url"] = articles[calls[k].i].url
            /\ calls[k].arg = PyStr(url_to_document_id(articles[calls[k].i].url[2]))
            /\ calls[k].ok =>
                DOMAIN store = {DocPath(FIREBASE_COLLECTION,
                                        url_to_document_id(articles[calls[k].i].url[2]))}

\* An article was stored whose stage-1 answer had a `url` of its own, another
\* address than the stub's.
C26_Witness ==
    /\ pc = "Returned"
    /\ "url" \in DOMAIN anR1.data
    /\ anR1.data["url"] # articles[1].url
    /\ \E k \in 1..Len(calls) : calls[k].op = "insert_document" /\ calls[k].ok

\* ------------------------------------------------------ termination of run

\* run is sequential code: a step that can be taken is taken (every remote call
\* returns or raises).
FairSpecRun == SpecRun /\ WF_vars(NextRun)

\* C12: once run has its headline list it ends at Done, whatever the crawl,
\* analysis and store calls raise: from the loop Done is always reached, and
\* no step of the loop leaves run by an exception.
C12_RunReachesDone ==
    /\ (pc = "Loop") ~> (pc = "Done")
    /\ [][pc = "Loop" => pc' \in {"Loop", "Done"}]_vars

\* A run of as many articles as the bound allows is over and none of them was
\* stored: among them the identifier derivation of one raised and the store
\* call of another.
C12_Witness ==
    /\ pc = "Done"
    /\ Len(articles) = MaxArticles
    /\ StoredCalls = {}
    /\ \E k \in 1..Len(calls) : calls[k].op = "url_to_document_id" /\ ~calls[k].ok
    /\ \E k \in 1..Len(calls) : calls[k].op = "insert_document" /\ ~calls[k].ok

\* A run after its headline fetch whose headline source gave the empty list.
EmptyHeadlines == pc \in {"Loop", "Done"} /\ articles = <<>>

\* C27: a transport failure of the headline fetch is swallowed into the empty
\* list; a run whose headline list is empty makes no call but get_headlines (no
\* crawl, no analysis, no store, no notification) and reaches Done.
C27_EmptyListRunsNothing ==
    /\ []((pc # "Start" /\ ~hlResp.net) => EmptyHeadlines)
    /\ [](EmptyHeadlines => calls = <<Call("get_headlines", runNo, 0, TRUE, PyNone)>>)
    /\ (pc = "Loop" /\ articles = <<>>) ~> (pc = "Done" /\ Len(calls) = 1)

\* A run whose headline fetch failed in transport has ended normally, with
\* the headline fetch as its only call.
C27_Witness ==
    /\ pc = "Done"
    /\ articles = <<>>
    /\ ~hlResp.net
    /\ Len(calls) = 1

\* ------------------------------------ properties of get_full_articles

\* The crawl_article calls of get_full_articles that returned, in order.
CrawledOk == SelectSeq(calls, LAMBDA c : c.op = "crawl_article" /\ c.ok)

\* C4: get_full_articles returns the full articles of exactly the stubs whose
\* crawl did not raise, in the order of the headline list, and a crawl that
\* raises never leaves get_full_articles; for every service.
C4_SurvivorsInOrder ==
    /\ pc = "Done" =>
        /\ Len(full_articles) = Len(CrawledOk)
        /\ Len(full_articles) <= Len(articles)
        /\ \A j \in 1..Len(full_articles) :
            full_articles[j].article = articles[CrawledOk[j].i]
        /\ \A j \in 1..(Len(CrawledOk) - 1) : CrawledOk[j].i < CrawledOk[j + 1].i
    /\ pc = "Raised" => \A k \in 1..Len(calls) : calls[k].op # "crawl_article"
    /\ pc = "Loop" => Len(SelectSeq(calls, LAMBDA c : c.op = "crawl_article")) = idx - 1

\* The Vietnamese service got three stubs, the crawl of the second raised and
\* it returned the first and the third.
C4_Witness ==
    /\ pc = "Done"
    /\ service.name = "Vietnamese"
    /\ Len(articles) = 3
    /\ Positions(CrawledOk) = <<1, 3>>
    /\ Len(full_articles) = 2
    /\ full_articles[2].article = articles[3]

\* C15: get_full_articles calls get_headlines once, before anything else, and
\* crawl_article once per stub returned, one after another in headline order,
\* whether a crawl raised or not: during the loop the stubs before the current
\* one have each been crawled once, and at the end all of them have.
C15_OneFetchOneCrawlPerStub ==
    pc \in {"Loop", "Done", "Raised"} =>
        LET crawls == SelectSeq(calls, LAMBDA c : c.op = "crawl_article")
        IN  /\ Len(SelectSeq(calls, LAMBDA c : c.op = "get_headlines")) = 1
            /\ calls[1].op = "get_headlines"
            /\ pc = "Loop" => Positions(crawls) = UpTo(idx - 1)
            /\ pc = "Done" => Positions(crawls) = UpTo(Len(articles))
            /\ \A k \in 1..Len(crawls) : crawls[k].arg = articles[k].url

\* The Default service got three stubs; the crawls of the first and of the
\* third raised, and each of the three stubs was crawled once.
C15_Witness ==
    /\ pc = "Done"
    /\ service.name = "Default"
    /\ Len(articles) = 3
    /\ Len(calls) = 4
    /\ ~calls[2].ok /\ calls[3].ok /\ ~calls[4].ok
    /\ Len(full_articles) = 1

\* ------------------------------------------------ properties of the crawler

\* The page was fetched (no transport error, no 4xx / 5xx status) and has no
\* region of the class the crawler looks for.
NoMatchingRegion ==
    /\ crPage.net /\ ~raise_for_status(crPage.status)
    /\ RegionClass(crCrawler) \notin crPage.regions

\* C16: when the fetched page has no matching content region, crawl_article
\* does not raise and the content of the FullArticle it returns is the empty
\* text.
C16_ContentIsEmptyText ==
    (crpc = "ended" /\ NoMatchingRegion) =>
        (~crOut.raised /\ crOut.value.content = <<>>)

\* C16, with the content as the code builds it: when the fetched page has no
\* matching content region, crawl_article does not raise and the content of the
\* FullArticle it returns is a list of one element, the empty text; the stub
\* is carried over unchanged.
C16_ContentIsListOfEmptyText ==
    (crpc = "ended" /\ NoMatchingRegion) =>
        /\ ~crOut.raised
        /\ crOut.value.content = << <<>> >>
        /\ crOut.value.article = crNews

\* The Tuoi Tre crawler was given a page that has only the region of the AP
\* crawler, and returned.
C16_Witness ==
    /\ crpc = "ended"
    /\ crCrawler = "TuoiTre"
    /\ crPage = Page(200, {"RichTextBody"}, Body)
    /\ NoMatchingRegion
    /\ ~crOut.raised

\* C28: the FullArticle crawl_article returns carries the author, title, url
\* and imageUrl of the stub it was given, with and without a content region
\* on the page.
C28_MetadataUnaltered ==
    (crpc = "ended" /\ ~crOut.raised) =>
        /\ DOMAIN crOut.value.article = MetaKeys
        /\ \A k \in MetaKeys : crOut.value.article[k] = crNews[k]

\* The AP crawler returned the text of the content region for a stub that has
\* neither author nor image.
C28_Witness ==
    /\ crpc = "ended"
    /\ ~crOut.raised
    /\ crCrawler = "AP"
    /\ crOut.value.content = <<Body>>
    /\ crNews.author = PyNone
    /\ crNews.imageUrl = PyNone

\* ---------------------------------------- properties of the Firestore client

\* The positions in calls of the token exchanges that succeeded.
Exchanged == {k \in 1..Len(calls) : calls[k].op = "exchange" /\ calls[k].ok}

\* C17: over the insert_document calls made on one client, at most one token
\* exchange succeeds; after it no call makes another exchange, and every
\* request sent carries the token cached, also after the store has rejected a
\* request.
C17_OneExchangePerClient ==
    /\ Cardinality(Exchanged) <= 1
    /\ \A j \in Exchanged : \A k \in (j + 1)..Len(calls) : calls[k].op # "exchange"
    /\ \A k \in 1..Len(calls) :
        calls[k].op = "patch" => (Exchanged # {} /\ calls[k].data.token = access_token)
    /\ Exchanged # {} => access_token = Token

\* Three calls on one client: the first exchanged the token and its request
\* was rejected by the store, the two later ones sent their requests without an
\* exchange.
C17_Witness ==
    /\ idx = 3
    /\ Len(calls) = 7
    /\ calls[1].op = "exchange" /\ calls[1].ok
    /\ calls[2].op = "patch" /\ ~calls[2].ok
    /\ calls[4].op = "patch" /\ ~calls[4].ok
    /\ calls[6].op = "patch" /\ calls[6].ok

\* The insert_document calls (as positions in calls) whose document_data holds,
\* at some depth, a value of an unsupported type.
UnsupportedInserts ==
    {k \in 1..Len(calls) :
        calls[k].op = "insert_document" /\ ~Supported(calls[k].data.document_data)}

TagOf(v) ==
    CASE v[1] = "str" -> "stringValue"
      [] v[1] = "bool" -> "booleanValue"
      [] v[1] = "int" -> "integerValue"
      [] v[1] = "float" -> "doubleValue"
      [] v[1] = "none" -> "nullValue"
      [] v[1] = "list" -> "arrayValue"
      [] v[1] = "dict" -> "mapValue"

\* w is the encoding of the supported value v: it has the tag of v's type, a
\* list has as many elements, in the same order, each the encoding of its
\* element, and a mapping has the same keys, each with the encoding of its value.
RECURSIVE Encodes(_, _)
Encodes(w, v) ==
    /\ w # TypeError
    /\ w[1] = TagOf(v)
    /\ CASE v[1] = "list" ->
              /\ Len(w[2]) = Len(v[2])
              /\ \A i \in 1..Len(v[2]) : Encodes(w[2][i], v[2][i])
         [] v[1] = "dict" ->
              /\ DOMAIN w[2] = DOMAIN v[2]
              /\ \A k \in DOMAIN v[2] : Encodes(w[2][k], v[2][k])
         [] v[1] = "int" -> w[2] = IntToStr(v[2])
         [] v[1] = "none" -> TRUE
         [] OTHER -> w[2] = v[2]

\* C19: the encoding gives every supported value the one tag of its type,
\* recursively: str -> stringValue, bool -> booleanValue (never integerValue),
\* int -> integerValue, float -> doubleValue, None -> nullValue, list ->
\* arrayValue of the same length and order, dict -> mapValue of the same keys.
C19_OneTagPerType ==
    (wrpc = "ended" /\ Supported(wrValue)) => Encodes(wrOut, wrValue)

\* A mapping of two keys was encoded, one of them a list holding a list with
\* True in it, the other an int.
C19_Witness ==
    /\ wrpc = "ended"
    /\ wrValue = PyDict([k \in {"k", "m"} |->
                    IF k = "k" THEN PyList(<<PyList(<<PyBool(TRUE)>>)>>) ELSE PyInt(1)])
    /\ wrOut = <<"mapValue", [k \in {"k", "m"} |->
                    IF k = "k" THEN <<"arrayValue", << <<"arrayValue", << <<"booleanValue", TRUE>> >> >> >> >>
                    ELSE <<"integerValue", <<49>> >>] >>

\* ------------------------------------------ properties of send_to_tokens

\* The responses of the sends that were accepted, in the order of the sends.
RECURSIVE AcceptedResponses(_)
AcceptedResponses(sent) ==
    IF sent = <<>> THEN <<>>
    ELSE IF Head(sent).outcome = "ok"
         THEN <<FcmResponse(Head(sent).token)>> \o AcceptedResponses(Tail(sent))
         ELSE AcceptedResponses(Tail(sent))

\* send_to_tokens has ended and nothing went wrong but sends that failed: the
\* client had or got its token, and every send was accepted, rejected, or got
\* no response.
EndedWithFailedSendsOnly ==
    /\ fcmpc \in {"Done", "Raised"}
    /\ fcmToken # NoToken
    /\ \A k \in 1..Len(fcmSent) : fcmSent[k].outcome \in {"ok", "rejected", "transport"}

\* C20: whichever sends fail, by a rejected response or by a transport error,
\* a request is posted for every token, in token order, the call returns, and
\* the result holds exactly the responses of the accepted sends, in token order.
C20_BestEffortPerToken ==
    EndedWithFailedSendsOnly =>
        /\ fcmpc = "Done"
        /\ [k \in 1..Len(fcmSent) |-> fcmSent[k].token] = fcmTokens
        /\ fcmResponses = AcceptedResponses(fcmSent)

\* C20, for rejected responses: when the only failures are rejected responses,
\* a request is posted for every token, the call returns, and the result holds
\* exactly the responses of the accepted sends, in token order.
C20_RejectedSendsAreSkipped ==
    (fcmpc \in {"Done", "Raised"} /\ fcmToken # NoToken
        /\ \A k \in 1..Len(fcmSent) : fcmSent[k].outcome \in {"ok", "rejected"}) =>
        /\ fcmpc = "Done"
        /\ [k \in 1..Len(fcmSent) |-> fcmSent[k].token] = fcmTokens
        /\ fcmResponses = AcceptedResponses(fcmSent)

\* ------------------------------------------- properties of send_to_topic

\* The requests of the k-th send_to_topic call.
PostsOf(k) == SelectSeq(fcmSent, LAMBDA s : s.call = k)

\* A status of the 2xx class.
Is2xx(status) == status >= 200 /\ status < 300

\* C21: a send_to_topic call that got its token makes exactly one request, and
\* when the request is answered (with a JSON body) the call returns that
\* response if the status is 2xx and raises if the status is anything else.
C21_TopicSendAllOrNothing ==
    \A k \in 1..Len(fcmResponses) :
        fcmResponses[k].token # NoToken =>
            /\ Len(PostsOf(k)) = 1
            /\ LET answer == PostsOf(k)[1].post.outcome
               IN  (answer.net /\ answer.json) =>
                    IF Is2xx(answer.status)
                    THEN ~fcmResponses[k].raised
                         /\ fcmResponses[k].value = <<FcmResponse(fcmResponses[k].topic)>>
                    ELSE fcmResponses[k].raised

\* C21, by response.ok: a send_to_topic call that got its token makes exactly
\* one request; it returns the response exactly when the answer has a status
\* below 400 and a JSON body, and raises otherwise, with nothing returned.
C21_OneRequestPerCall ==
    \A k \in 1..Len(fcmResponses) :
        /\ Len(PostsOf(k)) <= 1
        /\ fcmResponses[k].token # NoToken =>
            /\ Len(PostsOf(k)) = 1
            /\ LET answer == PostsOf(k)[1].post.outcome
                   accepted == answer.net /\ answer.status < 400 /\ answer.json
               IN  /\ fcmResponses[k].raised = ~accepted
                   /\ fcmResponses[k].value =
                        IF accepted THEN <<FcmResponse(fcmResponses[k].topic)>> ELSE <<>>

\* ------------------------------------- properties of the analyzer's stages

\* The stages of the remote calls of the analysis, in the order they were made.
StagesAsked == [k \in 1..Len(anOut.requests) |-> anOut.requests[k].stage]

\* C24: the analysis asks stage 1 first; it asks stage 2 only when stage 1
\* answered with an object that has `shortened`, and with exactly that value as
\* input; when stage 1 failed stage 2 is not asked; an analysis that returns
\* has made exactly the two calls, stage 1 then stage 2.
C24_Stage2AfterStage1 ==
    anpc = "ended" =>
        /\ StagesAsked \in {<<1>>, <<1, 2>>}
        /\ StagesAsked = <<1, 2>> =>
            /\ anR1.ok
            /\ "shortened" \in DOMAIN anR1.data
            /\ anOut.requests[2].input = anR1.data["shortened"]
        /\ ~anR1.ok => StagesAsked = <<1>>
        /\ ~anOut.raised => StagesAsked = <<1, 2>>

\* An analysis of an article with content that returned: stage 2 was asked
\* with the text stage 1 shortened, which is not the crawled text.
C24_Witness ==
    /\ anpc = "ended"
    /\ ~anOut.raised
    /\ anArticle.content = <<Body>>
    /\ anOut.requests = <<Request(1, PyStr(Body)), Request(2, PyStr(Short))>>

\* ---------------------------------------------- properties of the merge

\* The value a stage gives to key k, the second stage's if both give one.
StageValue(k) == IF k \in DOMAIN anR2.data THEN anR2.data[k] ELSE anR1.data[k]

\* The metadata keys that a stage response has as well.
Collisions == MetaKeys \cap (DOMAIN anR1.data \cup DOMAIN anR2.data)

\* C8: on a collision of a stage key with url, title, author or
\* imageUrl, the merged mapping keeps the stage's value.
C8_StageValueKept ==
    (anpc = "ended" /\ ~anOut.raised) =>
        \A k \in Collisions : anOut.value[k] = StageValue(k)

\* C8, with the precedence of the dict literal: on such a collision the merged
\* mapping keeps the value of the originating article's metadata.
C8_MetadataValueKept ==
    (anpc = "ended" /\ ~anOut.raised) =>
        \A k \in Collisions : anOut.value[k] = anArticle.article[k]

\* Stage 1 answered with its own url and title, stage 2 with its own author,
\* all different from the article's, and the analysis returned.
C8_Witness ==
    /\ anpc = "ended"
    /\ ~anOut.raised
    /\ Collisions = {"url", "title", "author"}
    /\ \A k \in Collisions : StageValue(k) # anArticle.article[k]

====
